---------------------------- MODULE Spec2Model ----------------------------
(***************************************************************************)
(* Model of Solvmetria (src/app.py): the IQR outlier detector, the soil    *)
(* diagnosis (obtener_diagnostico), the data quality index (calcular_icd)  *)
(* and the session state the Streamlit script keeps between reruns.        *)
(*                                                                         *)
(* Numbers.  The source computes with floats; the model computes with      *)
(* exact integers in fixed units:                                          *)
(*   pH and organic matter   hundredths        (6.0  -> 600)               *)
(*   exchangeable aluminium  thousandths       (0.01 -> 10)                *)
(*   tasa_outliers_max       hundredths        (0.10 -> 10)                *)
(* A quotient a/b is kept as the pair (a, b) and compared by cross         *)
(* multiplication; round() is Python's round-half-to-even on that pair.    *)
(* For the values and row counts used here (cell values that are binary    *)
(* fractions, the weights of ParamSets, up to 7 rows) the float results of *)
(* the source equal these exact ones.                                      *)
(* A missing cell (NaN / NaT after load_data's errors='coerce') is NaN.    *)
(***************************************************************************)
EXTENDS Integers, Sequences, FiniteSets, TLC

VARIABLES
    df,              \* df_muestras / df_diagnostico: the sample subset, a sequence of rows
    params,          \* the parameter dict handed to the function under evaluation
    pc,              \* position of the evaluation in progress
    icd,             \* last (icd_puntaje, calificacion, desglose) returned by calcular_icd
    promedios,       \* obtener_diagnostico: promedio_ph, promedio_aluminio, promedio_mo
    advertencias,    \* obtener_diagnostico: the warnings appended so far
    estado_general,  \* obtener_diagnostico: the overall state so far
    diag,            \* what obtener_diagnostico returned
    res_outliers,    \* what detectar_outliers_iqr returned
    datos,           \* df_original: "ok" when load_data read the file, "vacio" when not
    ses              \* per browser session: st.session_state and what its last run left

vars == <<df, params, pc, icd, promedios, advertencias, estado_general, diag,
          res_outliers, datos, ses>>
diagVars == <<promedios, advertencias, estado_general, diag>>
sesVars == <<datos, ses>>

(***************************************************************************)
(* Bounds of the model.                                                    *)
(***************************************************************************)
MaxRows == 5

(***************************************************************************)
(* Data.                                                                   *)
(***************************************************************************)
NaN == -1

ICD_PARAMS ==
    [ penalidad_nulo_ph        |-> 20,
      penalidad_nulo_al        |-> 20,
      penalidad_incoherente_ph |-> 30,
      penalidad_anomalias      |-> 15,
      penalidad_baja_precision |-> 10,
      penalidad_antiguedad     |-> 20,
      umbral_ph_min            |-> 300,
      umbral_ph_max            |-> 1000,
      umbral_al_toxico         |-> 1000,
      umbral_mo_bajo           |-> 200,
      tasa_outliers_max        |-> 10,
      ano_corte_antiguedad     |-> 2018 ]

PenaltyKeys ==
    { "penalidad_nulo_ph", "penalidad_nulo_al", "penalidad_incoherente_ph",
      "penalidad_anomalias", "penalidad_baja_precision", "penalidad_antiguedad" }

\* A row of the dataset: the four columns the two functions read.
Row(ph, al, mo, year) == [ph |-> ph, al |-> al, mo |-> mo, year |-> year]

(***************************************************************************)
(* Arithmetic helpers.                                                     *)
(***************************************************************************)
\* Python's round(a / b) for b > 0: nearest integer, a tie goes to the even one.
Round(a, b) ==
    LET q == a \div b
        r == a % b
    IN  IF 2 * r < b THEN q
        ELSE IF 2 * r > b THEN q + 1
        ELSE IF q % 2 = 0 THEN q ELSE q + 1

\* Max0 without the clamp.
Max0_sin_tope(x) == x

\* max(0, x)
Max0(x) == IF x < 0 THEN 0 ELSE x

RECURSIVE SumSeq(_)
SumSeq(s) == IF s = << >> THEN 0 ELSE Head(s) + SumSeq(Tail(s))

\* Series.dropna() on one column: the positions of df that hold a value.
Presentes(d, col) == { i \in DOMAIN d : d[i][col] # NaN }

\* Series.isnull().sum()
NumNulos(d, col) == Cardinality({ i \in DOMAIN d : d[i][col] = NaN })

\* The values of a column at the positions pos, in ascending order (the order
\* Series.quantile interpolates in).
RECURSIVE Ordenados(_, _, _)
Ordenados(d, col, pos) ==
    IF pos = {} THEN << >>
    ELSE LET i == CHOOSE j \in pos : \A k \in pos : d[j][col] <= d[k][col]
         IN  <<d[i][col]>> \o Ordenados(d, col, pos \ {i})

\* 4 * Series.quantile(q4 / 4), linear interpolation, on a sorted sequence s:
\* the position (n - 1) * q4 / 4 splits into a whole index and a fraction.
Quantile4(s, q4) ==
    LET n  == Len(s)
        i  == ((n - 1) * q4) \div 4
        f  == ((n - 1) * q4) % 4
        lo == s[i + 1]
        hi == IF i + 2 <= n THEN s[i + 2] ELSE s[i + 1]
    IN  4 * lo + f * (hi - lo)

(***************************************************************************)
(* detectar_outliers_iqr(series): the count of outliers and the positions  *)
(* (index labels) of the outliers of one column.                           *)
(***************************************************************************)
\* FueraDeLimites with the fences themselves counted as outside.
FueraDeLimites_no_estricta(x, limite_inferior, limite_superior) ==
    x <= limite_inferior \/ x >= limite_superior

\* Line 64: (data < limite_inferior) | (data > limite_superior)
FueraDeLimites(x, limite_inferior, limite_superior) ==
    x < limite_inferior \/ x > limite_superior

NoOutliers == [count |-> 0, outliers |-> {}]

detectar_outliers_iqr(d, col) ==
    LET data == Presentes(d, col)
    IN  IF data = {} \/ Cardinality(data) < 4
        THEN NoOutliers
        ELSE LET s     == Ordenados(d, col, data)
                 Q1x4  == Quantile4(s, 1)
                 Q3x4  == Quantile4(s, 3)
                 IQRx4 == Q3x4 - Q1x4
                 \* 8 * limite_inferior and 8 * limite_superior
                 limite_inferior_x8 == 2 * Q1x4 - 3 * IQRx4
                 limite_superior_x8 == 2 * Q3x4 + 3 * IQRx4
                 outliers == { i \in data :
                                 FueraDeLimites(8 * d[i][col], limite_inferior_x8,
                                                limite_superior_x8) }
             IN  [count |-> Cardinality(outliers), outliers |-> outliers]


(***************************************************************************)
(* calcular_icd(df_muestras, params).                                      *)
(*                                                                         *)
(* puntaje_base is kept as the numerator of a fraction over num_muestras:  *)
(* a flat penalty p takes p * num_muestras off it, a prorated one          *)
(* p * nulos.  desglose is the dict of the (negative) amounts recorded.    *)
(***************************************************************************)
\* The Al value below which a sample counts as low precision: 0.01.
AL_BAJA_PRECISION == 10

EmptyDict == [k \in {} |-> 0]

\* ComplecionResta taking the rounded (displayed) amount off the score.
ComplecionResta_redondeada(d, col, penalidad) ==
    LET n     == Len(d)
        nulos == NumNulos(d, col)
    IN  IF nulos = n THEN penalidad * n
        ELSE IF nulos > 0 THEN Round(penalidad * nulos, n) * n
        ELSE 0

\* Lines 138-147, one column: what comes off puntaje_base (times num_muestras).
ComplecionResta(d, col, penalidad) ==
    LET n     == Len(d)
        nulos == NumNulos(d, col)
    IN  IF nulos = n THEN penalidad * n
        ELSE IF nulos > 0 THEN penalidad * nulos
        ELSE 0

\* Lines 138-147, one column: the entry written to desglose.
ComplecionDesglose(d, col, total, parcial, penalidad) ==
    LET n     == Len(d)
        nulos == NumNulos(d, col)
    IN  IF nulos = n THEN total :> (0 - penalidad)
        ELSE IF nulos > 0 THEN parcial :> (0 - Round(penalidad * nulos, n))
        ELSE EmptyDict

\* muestra_ph_incoherente with the bounds themselves counted as incoherent.
muestra_ph_incoherente_no_estricta(d, p) ==
    /\ Presentes(d, "ph") # {}
    /\ \E i \in Presentes(d, "ph") :
           d[i].ph <= p.umbral_ph_min \/ d[i].ph >= p.umbral_ph_max

\* Lines 150-151: some present pH value is outside [umbral_ph_min, umbral_ph_max].
muestra_ph_incoherente(d, p) ==
    /\ Presentes(d, "ph") # {}
    /\ \E i \in Presentes(d, "ph") :
           d[i].ph < p.umbral_ph_min \/ d[i].ph > p.umbral_ph_max

\* Lines 158-161: tasa_outliers > params['tasa_outliers_max'].
tasa_outliers_excedida(d, p) ==
    detectar_outliers_iqr(d, "ph").count * 100 > p.tasa_outliers_max * Len(d)

\* al_baja_precision with 0.01 itself counted as low precision.
al_baja_precision_no_estricta(d) ==
    \E i \in Presentes(d, "al") : d[i].al <= AL_BAJA_PRECISION

\* Line 166: some present Al value is below 0.01.
al_baja_precision(d) ==
    \E i \in Presentes(d, "al") : d[i].al < AL_BAJA_PRECISION

\* Line 171: some analysis year is before the cutoff year (NaT compares False).
fecha_antigua(d, p) ==
    \E i \in Presentes(d, "year") : d[i].year < p.ano_corte_antiguedad

\* PuntajeBaseN with the staleness penalty added instead of subtracted.
PuntajeBaseN_signo(d, p) ==
    LET n == Len(d)
    IN  100 * n
        - ComplecionResta(d, "ph", p.penalidad_nulo_ph)
        - ComplecionResta(d, "al", p.penalidad_nulo_al)
        - (IF muestra_ph_incoherente(d, p) THEN p.penalidad_incoherente_ph * n ELSE 0)
        - (IF tasa_outliers_excedida(d, p) THEN p.penalidad_anomalias * n ELSE 0)
        - (IF al_baja_precision(d) THEN p.penalidad_baja_precision * n ELSE 0)
        + (IF fecha_antigua(d, p) THEN p.penalidad_antiguedad * n ELSE 0)

\* puntaje_base * num_muestras when line 176 is reached.
PuntajeBaseN(d, p) ==
    LET n == Len(d)
    IN  100 * n
        - ComplecionResta(d, "ph", p.penalidad_nulo_ph)
        - ComplecionResta(d, "al", p.penalidad_nulo_al)
        - (IF muestra_ph_incoherente(d, p) THEN p.penalidad_incoherente_ph * n ELSE 0)
        - (IF tasa_outliers_excedida(d, p) THEN p.penalidad_anomalias * n ELSE 0)
        - (IF al_baja_precision(d) THEN p.penalidad_baja_precision * n ELSE 0)
        - (IF fecha_antigua(d, p) THEN p.penalidad_antiguedad * n ELSE 0)

\* The dict desglose when line 176 is reached.
Desglose(d, p) ==
    ComplecionDesglose(d, "ph", "Complecion (pH_agua_suelo Nulo Total)",
                       "Complecion (pH_agua_suelo Nulo Parcial)", p.penalidad_nulo_ph)
    @@ ComplecionDesglose(d, "al", "Complecion (Aluminio Nulo Total)",
                          "Complecion (Aluminio Nulo Parcial)", p.penalidad_nulo_al)
    @@ (IF muestra_ph_incoherente(d, p)
        THEN "Coherencia (pH Imposible)" :> (0 - p.penalidad_incoherente_ph)
        ELSE EmptyDict)
    @@ (IF tasa_outliers_excedida(d, p)
        THEN "Anomalias (Outliers pH IQR)" :> (0 - p.penalidad_anomalias)
        ELSE EmptyDict)
    @@ (IF al_baja_precision(d)
        THEN "Precision (Al bajo)" :> (0 - p.penalidad_baja_precision)
        ELSE EmptyDict)
    @@ (IF fecha_antigua(d, p)
        THEN "Actualidad (Fecha Antigua)" :> (0 - p.penalidad_antiguedad)
        ELSE EmptyDict)

\* Lines 178-180.
Calificacion(icd_puntaje) ==
    IF icd_puntaje >= 80 THEN "Alta"
    ELSE IF icd_puntaje >= 50 THEN "Media"
    ELSE "Baja"

\* calcular_icd without the early return of lines 131-132: on an empty subset
\* isnull().all() holds for both columns and no other criterion applies.
calcular_icd_sin_retorno_vacio(d, p) ==
    LET icd_puntaje ==
            IF d = << >>
            THEN Max0(100 - p.penalidad_nulo_ph - p.penalidad_nulo_al)
            ELSE Max0(Round(PuntajeBaseN(d, p), Len(d)))
    IN  [puntaje |-> icd_puntaje, calificacion |-> Calificacion(icd_puntaje),
         desglose |-> Desglose(d, p)]

calcular_icd(d, p) ==
    IF d = << >>
    THEN [puntaje |-> 0, calificacion |-> "Baja", desglose |-> EmptyDict]
    ELSE LET icd_puntaje == Max0(Round(PuntajeBaseN(d, p), Len(d)))
         IN  [puntaje      |-> icd_puntaje,
              calificacion |-> Calificacion(icd_puntaje),
              desglose     |-> Desglose(d, p)]


(***************************************************************************)
(* obtener_diagnostico(df_muestras, params).                               *)
(*                                                                         *)
(* A mean is the pair <<sum, count>>; count 0 is the NaN that Series.mean  *)
(* gives for a column without values, and 0.0 is <<0, 1>>.  A warning is   *)
(* kept as its indicator, its bold text and its trailing icon ("stop" for  *)
(* the stop sign, "warn" for the warning sign, "ausente" for the no-entry  *)
(* sign, "ok" for the thumbs-up); the formatted mean inside the text is    *)
(* not kept.                                                               *)
(***************************************************************************)
\* The pH mean below which the soil is reported acid: 5.5 (line 93).
PH_ACIDO == 550

Cero == <<0, 1>>

Adv(nombre, msj, icono) == [nombre |-> nombre, msj |-> msj, icono |-> icono]

\* ResultadoInsuficiente with the means left as NaN.
ResultadoInsuficiente_nan ==
    [ advertencias |-> << Adv("", "No hay datos completos o suficientes", "stop") >>,
      estado |-> "peligro", ph |-> <<0, 0>>, al |-> <<0, 0>>, mo |-> <<0, 0>> ]

\* Lines 75 and 81: the fixed result for insufficient data.  The source puts the
\* message itself (a str) where line 125 puts the list; it is taken here as the
\* warnings of the result, one message with the danger icon.
ResultadoInsuficiente ==
    [ advertencias |-> << Adv("", "No hay datos completos o suficientes", "stop") >>,
      estado |-> "peligro", ph |-> Cero, al |-> Cero, mo |-> Cero ]

\* Lines 72-73: the subset is empty or the three key columns are all null.
SinDatosClave(d) ==
    \/ d = << >>
    \/ \A col \in {"ph", "al", "mo"} : \A i \in DOMAIN d : d[i][col] = NaN

\* Line 78: dropna(subset=[the three columns], how='all'), as the kept positions.
df_validas_para_diag(d) ==
    { i \in DOMAIN d : ~(d[i].ph = NaN /\ d[i].al = NaN /\ d[i].mo = NaN) }

\* Lines 85-87: Series.mean() of one column over the kept rows.
Promedio(d, filas, col) ==
    LET pos == { i \in filas : d[i][col] # NaN }
    IN  << SumSeq(Ordenados(d, col, pos)), Cardinality(pos) >>

notna(m) == m[2] > 0
Menor(m, umbral) == m[1] < umbral * m[2]
Mayor(m, umbral) == m[1] > umbral * m[2]

\* Lines 92-96: the rows of the loop, in order.
Indicadores(prom, p) ==
    << [promedio |-> prom.ph, nombre |-> "pH", umbral_min |-> PH_ACIDO,
        umbral_max |-> NaN, es_peligro_alto |-> FALSE,
        msj_bajo |-> "Acido", msj_peligro |-> "Fuera de Rango Extremo"],
       [promedio |-> prom.al, nombre |-> "Aluminio", umbral_min |-> NaN,
        umbral_max |-> p.umbral_al_toxico, es_peligro_alto |-> TRUE,
        msj_bajo |-> "", msj_peligro |-> "Toxico"],
       [promedio |-> prom.mo, nombre |-> "Materia Organica",
        umbral_min |-> p.umbral_mo_bajo, umbral_max |-> NaN,
        es_peligro_alto |-> FALSE, msj_bajo |-> "Baja", msj_peligro |-> ""] >>

\* PhFueraDeRango without the test against umbral_ph_max.
PhFueraDeRango_solo_minimo(m, p) == Menor(m, p.umbral_ph_min)

\* Line 102: the pH mean is outside [umbral_ph_min, umbral_ph_max].
PhFueraDeRango(m, p) == Menor(m, p.umbral_ph_min) \/ Mayor(m, p.umbral_ph_max)

\* Line 107: if estado_general != "peligro": estado_general = "alerta"
AlertaSiNoPeligro(estado) == IF estado # "peligro" THEN "alerta" ELSE estado

\* AlertaSiSaludable without its guard.
AlertaSiSaludable_sin_guarda(estado) == "alerta"

\* Lines 110 and 113: if estado_general == "saludable": estado_general = "alerta"
AlertaSiSaludable(estado) == IF estado = "saludable" THEN "alerta" ELSE estado

\* "icon in adv for adv in advertencias"
HayIcono(advs, icono) == \E j \in DOMAIN advs : advs[j].icono = icono

\* CondicionesOptimas without the test of the state.
CondicionesOptimas_sin_estado(estado, advs) == ~HayIcono(advs, "ausente")

\* Line 118: estado_general == "saludable" and no warning carries the
\* absent-data icon.
CondicionesOptimas(estado, advs) ==
    estado = "saludable" /\ ~HayIcono(advs, "ausente")

\* Lines 97-113: one pass of the loop body; the warnings and the state after it.
CuerpoIndicador(x, p, advs, estado) ==
    IF notna(x.promedio)
    THEN IF x.es_peligro_alto /\ Mayor(x.promedio, x.umbral_max)
         THEN [advs   |-> Append(advs, Adv(x.nombre, x.msj_peligro, "stop")),
               estado |-> "peligro"]
         ELSE IF x.nombre = "pH"
         THEN IF PhFueraDeRango(x.promedio, p)
              THEN [advs   |-> Append(advs, Adv("pH", x.msj_peligro, "stop")),
                    estado |-> "peligro"]
              ELSE IF Menor(x.promedio, x.umbral_min)
              THEN [advs   |-> Append(advs, Adv("pH", x.msj_bajo, "warn")),
                    estado |-> AlertaSiNoPeligro(estado)]
              ELSE [advs |-> advs, estado |-> estado]
         ELSE IF x.nombre = "Materia Organica" /\ Menor(x.promedio, x.umbral_min)
         THEN [advs   |-> Append(advs, Adv("Materia Organica", x.msj_bajo, "warn")),
               estado |-> AlertaSiSaludable(estado)]
         ELSE [advs |-> advs, estado |-> estado]
    ELSE [advs   |-> Append(advs, Adv(x.nombre, "Dato Ausente", "ausente")),
          estado |-> AlertaSiSaludable(estado)]

\* Lines 121-123: a missing mean is returned as 0.0.
Final(m) == IF notna(m) THEN m ELSE Cero

NoProm == [ph |-> <<0, 0>>, al |-> <<0, 0>>, mo |-> <<0, 0>>]
NoDiag == [advertencias |-> << >>, estado |-> "", ph |-> <<0, 0>>,
           al |-> <<0, 0>>, mo |-> <<0, 0>>]

DiagIdle ==
    /\ promedios = NoProm
    /\ advertencias = << >>
    /\ estado_general = ""
    /\ diag = NoDiag

(***************************************************************************)
(* Inputs.  Both functions read a column only through order-independent    *)
(* reductions (isnull().all/any/sum, count, any, mean, quantile), so a     *)
(* subset is enumerated once, with its rows in the order of the pool.      *)
(***************************************************************************)
\* Rows that differ in the columns calcular_icd reads (pH, Al, year).  The first
\* row sits on the Al and year boundaries (0.01, the cutoff year), the pH values
\* 3.0 and 10.0 sit on the coherence boundaries.
IcdRows ==
    << Row(600, 10, 300, 2018),
       Row(NaN, 500, 300, 2020),
       Row(600, NaN, 300, 2020),
       Row(200, 500, 300, 2020),
       Row(1100, 500, 300, 2020),
       Row(300, 500, 300, 2020),
       Row(1000, 500, 300, 2020),
       Row(600, 5, 300, 2020),
       Row(600, 500, 300, 2015),
       Row(NaN, NaN, NaN, NaN) >>

\* Index sequences of length n over lo..hi that never decrease.
RECURSIVE NoDecrecientes(_, _, _)
NoDecrecientes(n, lo, hi) ==
    IF n = 0 THEN { << >> }
    ELSE UNION { { <<i>> \o t : t \in NoDecrecientes(n - 1, i, hi) } : i \in lo..hi }

\* The subsets of at most MaxRows rows drawn (with repetition) from a pool.
Muestras(pool) ==
    UNION { { [i \in 1..n |-> pool[ix[i]]] : ix \in NoDecrecientes(n, 1, Len(pool)) }
            : n \in 0..MaxRows }

\* Penalty weights tried besides the defaults: none, the smallest, and one that
\* alone exhausts the 100 points.
PenaltyVals == {0, 1, 100}

\* The parameter sets tried: the defaults with at most one weight replaced.
ParamSets ==
    {ICD_PARAMS} \cup
    { [ICD_PARAMS EXCEPT ![k] = v] : k \in PenaltyKeys, v \in PenaltyVals }

NoIcd == [puntaje |-> 0, calificacion |-> "", desglose |-> EmptyDict]

(***************************************************************************)
(* The Streamlit session.  Every user interaction reruns the script from   *)
(* the top; st.session_state survives the reruns of one browser session,   *)
(* the module-level names (ICD_PARAMS among them) are bound anew by each   *)
(* run, and a keyed widget keeps its value only while successive runs      *)
(* render it.                                                              *)
(***************************************************************************)
Sesiones == {"s1", "s2"}

Niveles == {"easy", "intermediate", "advanced"}

\* The rows of the municipality the session has selected (df_diagnostico).
DfMunicipio == << IcdRows[1], IcdRows[2], IcdRows[4], IcdRows[9] >>

\* The widgets of show_advanced_level (lines 422-430) and, for each, the value a
\* user sets it to in the model besides the one it shows.
Widgets ==
    { "penalidad_nulo_ph", "penalidad_incoherente_ph", "penalidad_anomalias",
      "penalidad_antiguedad", "umbral_ph_min", "tasa_outliers_max" }

Entrada ==
    [ penalidad_nulo_ph        |-> 50,
      penalidad_incoherente_ph |-> 0,
      penalidad_anomalias      |-> 50,
      penalidad_antiguedad     |-> 0,
      umbral_ph_min            |-> 200,
      tasa_outliers_max        |-> 20 ]

\* What a slider / number_input call returns: the value the user just set, else
\* the value the widget kept from the previous run, else its value argument.
ValorWidget(vivo, guardado, value, entrada) ==
    IF entrada # NaN THEN entrada
    ELSE IF vivo THEN guardado
    ELSE value

\* DebeCopiar without the test: the working copy is made anew by every run.
DebeCopiar_siempre(st) == TRUE

\* Line 411: 'current_icd_params' not in st.session_state
DebeCopiar(st) == ~st.tiene_params

\* Lines 411-432, show_advanced_level: k is the widget the user moved to v in
\* the interaction that caused this run (k = "" when none was).
show_advanced_level(st, k, v) ==
    LET base == IF DebeCopiar(st) THEN st.ICD_PARAMS ELSE st.current_icd_params
        nuevo == [ c \in DOMAIN base |->
                     IF c \in Widgets
                     THEN ValorWidget(st.widgets_vivos, st.widgets[c], base[c],
                                      IF c = k THEN v ELSE NaN)
                     ELSE base[c] ]
    IN  [ st EXCEPT !.tiene_params = TRUE,
                    !.current_icd_params = nuevo,
                    !.widgets_vivos = TRUE,
                    !.widgets = [c \in Widgets |-> nuevo[c]],
                    !.new_icd_puntaje = calcular_icd(DfMunicipio, nuevo).puntaje ]

\* One run of the script (lines 8-546) for a session whose state is st.
\* Widgets that the run does not render lose their state.  boton_cambiar says
\* whether the run rendered the "Cambiar Nivel de Experiencia" button: the
\* selector (lines 543-544) has none, show_main_app returns at line 490 before
\* any when df_original is empty, and reaches the one of lines 534-538 after
\* the view of the level otherwise (a dataset with rows has a department, and
\* every department a municipality, so the branch of lines 506-513 is not
\* taken).
CorrerScript(st, k, v) ==
    LET s0 == [st EXCEPT !.ICD_PARAMS = ICD_PARAMS]
        sinWidgets == [s0 EXCEPT !.widgets_vivos = FALSE, !.boton_cambiar = FALSE]
        conBoton(x) == [x EXCEPT !.boton_cambiar = TRUE]
    IN  IF s0.user_level = "None" THEN sinWidgets
        ELSE IF datos = "vacio" THEN sinWidgets
        ELSE IF s0.user_level = "advanced"
             THEN conBoton(show_advanced_level(s0, k, v))
        ELSE conBoton(sinWidgets)

SesionNueva ==
    [ user_level         |-> "None",
      tiene_params       |-> FALSE,
      current_icd_params |-> ICD_PARAMS,
      widgets_vivos      |-> FALSE,
      widgets            |-> [c \in Widgets |-> ICD_PARAMS[c]],
      ICD_PARAMS         |-> ICD_PARAMS,
      new_icd_puntaje    |-> 0,
      boton_cambiar      |-> FALSE ]

\* GuardarSesion with one store for all sessions: the working copy a run writes
\* is the one every session reads.
GuardarSesion_compartida(s, st) ==
    [ t \in Sesiones |->
        IF t = s THEN st
        ELSE [ses[t] EXCEPT !.tiene_params = st.tiene_params,
                            !.current_icd_params = st.current_icd_params] ]

\* st.session_state (lines 411-412, 422-430, 536-537) is the store of the
\* session whose run writes it: what the run of session s leaves in it replaces
\* the state of s and of no other session.
GuardarSesion(s, st) == [ses EXCEPT ![s] = st]

SesIdle ==
    /\ datos = "ok"
    /\ ses = [s \in Sesiones |-> SesionNueva]

(***************************************************************************)
(* SpecIcd: calcular_icd applied to a subset, first with the defaults      *)
(* (show_main_app, line 522), then again after each change of one penalty  *)
(* weight (show_advanced_level, lines 422-432).                            *)
(***************************************************************************)
InitIcd ==
    /\ df \in Muestras(IcdRows)
    /\ params = ICD_PARAMS
    /\ pc = "inicio"
    /\ icd = NoIcd
    /\ res_outliers = NoOutliers
    /\ DiagIdle
    /\ SesIdle

CalcularIcd ==
    /\ pc = "inicio"
    /\ icd' = calcular_icd(df, params)
    /\ pc' = "icd"
    /\ UNCHANGED <<df, res_outliers, params, diagVars, sesVars>>

AjustarPenalidad(k, v) ==
    /\ pc = "icd"
    /\ params[k] # v
    /\ [params EXCEPT ![k] = v] \in ParamSets
    /\ params' = [params EXCEPT ![k] = v]
    /\ icd' = calcular_icd(df, params')
    /\ UNCHANGED <<df, res_outliers, pc, diagVars, sesVars>>

NextIcd ==
    \/ CalcularIcd
    \/ \E k \in PenaltyKeys : \E v \in PenaltyVals \cup {ICD_PARAMS[k]} :
           AjustarPenalidad(k, v)

SpecIcd == InitIcd /\ [][NextIcd]_vars


(***************************************************************************)
(* SpecDiag: one evaluation of obtener_diagnostico, statement by           *)
(* statement: the guards (lines 72-81), the means (85-90), the loop over   *)
(* pH, aluminium and organic matter (92-113), the two closing adjustments  *)
(* (115-119) and the return (121-125).                                     *)
(***************************************************************************)
\* Rows that differ in the columns obtener_diagnostico reads (pH, Al, organic
\* matter), and two rows without any of them that differ in the date.
DiagRows ==
    << Row(600, 500, 300, 2020),
       Row(200, 500, 300, 2020),
       Row(1100, 500, 300, 2020),
       Row(500, 500, 300, 2020),
       Row(600, 2500, 300, 2020),
       Row(600, 500, 50, 2020),
       Row(600, NaN, NaN, 2020),
       Row(NaN, 1000, NaN, 2020),
       Row(NaN, NaN, 300, 2020),
       Row(NaN, 2500, NaN, 2015),
       Row(NaN, NaN, NaN, 2020),
       Row(NaN, NaN, NaN, NaN) >>

\* The parameter sets obtener_diagnostico is tried with: the defaults (the only
\* one show_main_app passes, line 521) and one with every threshold moved.
DiagParamSets ==
    { ICD_PARAMS,
      [ICD_PARAMS EXCEPT !.umbral_ph_min = 550, !.umbral_ph_max = 600,
                         !.umbral_al_toxico = 400, !.umbral_mo_bajo = 400] }

InitDiag ==
    /\ df \in Muestras(DiagRows)
    /\ params \in DiagParamSets
    /\ pc = "diag_inicio"
    /\ icd = NoIcd
    /\ res_outliers = NoOutliers
    /\ DiagIdle
    /\ SesIdle

\* Lines 72-75 and 78-81: insufficient data, the fixed result is returned.
DiagInsuficiente ==
    /\ pc = "diag_inicio"
    /\ (SinDatosClave(df) \/ df_validas_para_diag(df) = {})
    /\ diag' = ResultadoInsuficiente
    /\ pc' = "diag_fin"
    /\ UNCHANGED <<df, res_outliers, params, icd, promedios, advertencias, estado_general, sesVars>>

\* Lines 85-90: the means, the empty warning list and the initial state.
DiagPromedios ==
    /\ pc = "diag_inicio"
    /\ ~SinDatosClave(df)
    /\ df_validas_para_diag(df) # {}
    /\ promedios' = [ ph |-> Promedio(df, df_validas_para_diag(df), "ph"),
                      al |-> Promedio(df, df_validas_para_diag(df), "al"),
                      mo |-> Promedio(df, df_validas_para_diag(df), "mo") ]
    /\ advertencias' = << >>
    /\ estado_general' = "saludable"
    /\ pc' = "indicador_1"
    /\ UNCHANGED <<df, res_outliers, params, icd, diag, sesVars>>

\* Lines 92-113: the loop body for the i-th indicator.
DiagIndicador(i, aqui, luego) ==
    /\ pc = aqui
    /\ LET r == CuerpoIndicador(Indicadores(promedios, params)[i], params,
                                advertencias, estado_general)
       IN  /\ advertencias' = r.advs
           /\ estado_general' = r.estado
    /\ pc' = luego
    /\ UNCHANGED <<df, res_outliers, params, icd, promedios, diag, sesVars>>

\* Lines 115-116.
DiagAjusteSaludable ==
    /\ pc = "ajuste_saludable"
    /\ estado_general' =
           IF ~HayIcono(advertencias, "stop") /\ estado_general # "alerta"
           THEN "saludable" ELSE estado_general
    /\ pc' = "ajuste_optimo"
    /\ UNCHANGED <<df, res_outliers, params, icd, promedios, advertencias, diag, sesVars>>

\* Lines 118-119.
DiagAjusteOptimo ==
    /\ pc = "ajuste_optimo"
    /\ advertencias' =
           IF CondicionesOptimas(estado_general, advertencias)
           THEN Append(advertencias, Adv("", "condiciones optimas", "ok"))
           ELSE advertencias
    /\ pc' = "diag_return"
    /\ UNCHANGED <<df, res_outliers, params, icd, promedios, estado_general, diag, sesVars>>

\* Lines 121-125.
DiagReturn ==
    /\ pc = "diag_return"
    /\ diag' = [ advertencias |-> advertencias, estado |-> estado_general,
                 ph |-> Final(promedios.ph), al |-> Final(promedios.al),
                 mo |-> Final(promedios.mo) ]
    /\ pc' = "diag_fin"
    /\ UNCHANGED <<df, res_outliers, params, icd, promedios, advertencias, estado_general, sesVars>>

NextDiag ==
    \/ DiagInsuficiente
    \/ DiagPromedios
    \/ DiagIndicador(1, "indicador_1", "indicador_2")
    \/ DiagIndicador(2, "indicador_2", "indicador_3")
    \/ DiagIndicador(3, "indicador_3", "ajuste_saludable")
    \/ DiagAjusteSaludable
    \/ DiagAjusteOptimo
    \/ DiagReturn

SpecDiag == InitDiag /\ [][NextDiag]_vars

(***************************************************************************)
(* SpecSesion: the browser sessions of one server process, one action per  *)
(* user interaction together with the script runs it causes.               *)
(***************************************************************************)
InitSesion ==
    /\ datos \in {"ok", "vacio"}
    /\ ses = [s \in Sesiones |-> SesionNueva]
    /\ df = << >>
    /\ params = ICD_PARAMS
    /\ pc = "sesion"
    /\ icd = NoIcd
    /\ res_outliers = NoOutliers
    /\ DiagIdle

\* Lines 471-481: a level button of the selector, then st.rerun().
ElegirNivel(s, nivel) ==
    /\ ses[s].user_level = "None"
    /\ ses' = GuardarSesion(s,
                  CorrerScript([ses[s] EXCEPT !.user_level = nivel], "", NaN))
    /\ UNCHANGED <<df, res_outliers, params, pc, icd, diagVars, datos>>

\* Lines 536-538: the "Cambiar Nivel de Experiencia" button of the sidebar, which
\* the run reaches only after rendering the level's view; then st.rerun().
CambiarNivel(s) ==
    /\ ses[s].boton_cambiar
    /\ ses' = GuardarSesion(s,
                  CorrerScript([CorrerScript(ses[s], "", NaN)
                                    EXCEPT !.user_level = "None"], "", NaN))
    /\ UNCHANGED <<df, res_outliers, params, pc, icd, diagVars, datos>>

\* Lines 422-430: the user moves one widget of the expert level to v; the script
\* reruns.
AjustarRegla(s, k, v) ==
    /\ ses[s].user_level = "advanced"
    /\ ses[s].widgets_vivos
    /\ ses[s].widgets[k] # v
    /\ ses' = GuardarSesion(s, CorrerScript(ses[s], k, v))
    /\ UNCHANGED <<df, res_outliers, params, pc, icd, diagVars, datos>>

NextSesion ==
    \E s \in Sesiones :
        \/ \E nivel \in Niveles : ElegirNivel(s, nivel)
        \/ CambiarNivel(s)
        \/ \E k \in Widgets : \E v \in {Entrada[k], ICD_PARAMS[k]} :
               AjustarRegla(s, k, v)

SpecSesion == InitSesion /\ [][NextSesion]_vars

(***************************************************************************)
(* SpecOutliers: detectar_outliers_iqr applied to one series (the pH       *)
(* column of a subset, as calcular_icd hands it over at line 157).         *)
(***************************************************************************)
\* The cells of the series: with quartiles 4.0 and 6.0 the fences are 1.0 and
\* 9.0, so 1.0 and 9.0 lie on a fence and 0.5 and 10.0 beyond one.
SerieRows ==
    << Row(50, 500, 300, 2020),  Row(100, 500, 300, 2020),
       Row(400, 500, 300, 2020), Row(500, 500, 300, 2020),
       Row(600, 500, 300, 2020), Row(900, 500, 300, 2020),
       Row(1000, 500, 300, 2020), Row(NaN, 500, 300, 2020) >>

InitOutliers ==
    /\ df \in Muestras(SerieRows)
    /\ params = ICD_PARAMS
    /\ pc = "outliers_inicio"
    /\ icd = NoIcd
    /\ res_outliers = NoOutliers
    /\ DiagIdle
    /\ SesIdle

\* Lines 51-66: one call of detectar_outliers_iqr on the pH column.
DetectarOutliers ==
    /\ pc = "outliers_inicio"
    /\ res_outliers' = detectar_outliers_iqr(df, "ph")
    /\ pc' = "outliers_fin"
    /\ UNCHANGED <<df, params, icd, diagVars, sesVars>>

NextOutliers == DetectarOutliers

SpecOutliers == InitOutliers /\ [][NextOutliers]_vars

(***************************************************************************)
(* Properties of calcular_icd (checked under SpecIcd).                     *)
(***************************************************************************)
PesosNoNegativos(p) == \A k \in PenaltyKeys : p[k] >= 0

\* C1: for every subset and every parameter set with non-negative penalty
\* weights, the score calcular_icd returns is an integer in 0..100.
C1_PuntajeEnRango ==
    (pc = "icd" /\ PesosNoNegativos(params)) => icd.puntaje \in 0..100

\* C1 witness: the deductions exceed 100 points and the score is clamped to 0.
C1_Witness ==
    /\ pc = "icd"
    /\ df # << >>
    /\ PesosNoNegativos(params)
    /\ PuntajeBaseN(df, params) < 0
    /\ icd.puntaje = 0

\* q is p with exactly one penalty weight made larger.
SubeUnPeso(p, q) ==
    \E k \in PenaltyKeys :
        /\ q[k] > p[k]
        /\ q = [p EXCEPT ![k] = q[k]]

\* C2: for a fixed subset, making one penalty weight larger (all else fixed)
\* never makes the score larger.
C2_Monotona ==
    [][ (pc = "icd" /\ pc' = "icd" /\ df' = df /\ SubeUnPeso(params, params'))
            => icd'.puntaje <= icd.puntaje ]_vars

\* C2 witness: a weight was raised above its default and the score fell below
\* the score the defaults give.
C2_Witness ==
    /\ pc = "icd"
    /\ SubeUnPeso(ICD_PARAMS, params)
    /\ icd.puntaje < calcular_icd(df, ICD_PARAMS).puntaje

\* The premises of C3 as the claim words them.
TodoPresente(d) == \A i \in DOMAIN d : d[i].ph # NaN /\ d[i].al # NaN
PhCoherente(d, p) ==
    \A i \in DOMAIN d : d[i].ph >= p.umbral_ph_min /\ d[i].ph <= p.umbral_ph_max
SinFechaAntigua(d, p) ==
    \A i \in DOMAIN d : d[i].year = NaN \/ d[i].year >= p.ano_corte_antiguedad
SinOutliers(d) == detectar_outliers_iqr(d, "ph").count = 0
SinAlBajo(d) == \A i \in DOMAIN d : d[i].al = NaN \/ d[i].al >= AL_BAJA_PRECISION

IcdPerfecto == icd = [puntaje |-> 100, calificacion |-> "Alta", desglose |-> EmptyDict]

\* C3 as stated: a non-empty subset with every pH and Al value present, every pH
\* coherent, no stale year and no pH outlier gets score 100, "Alta" and an empty
\* breakdown.
C3_Original ==
    ( /\ pc = "icd"
      /\ df # << >>
      /\ TodoPresente(df)
      /\ PhCoherente(df, params)
      /\ SinFechaAntigua(df, params)
      /\ SinOutliers(df) ) => IcdPerfecto

\* C3 amended: the same, for subsets that also hold no Al value below 0.01.
C3_Amended ==
    ( /\ pc = "icd"
      /\ df # << >>
      /\ TodoPresente(df)
      /\ PhCoherente(df, params)
      /\ SinFechaAntigua(df, params)
      /\ SinOutliers(df)
      /\ SinAlBajo(df) ) => IcdPerfecto

\* C3 witness: such a subset, large enough for the outlier detector to run and
\* holding pH values on both coherence bounds, was scored 100.
C3_Witness ==
    /\ pc = "icd"
    /\ Len(df) >= 4
    /\ TodoPresente(df)
    /\ PhCoherente(df, params)
    /\ SinFechaAntigua(df, params)
    /\ SinOutliers(df)
    /\ SinAlBajo(df)
    /\ \E i \in DOMAIN df : df[i].ph = params.umbral_ph_max
    /\ IcdPerfecto


\* None of the flat criteria (lines 150-174) applies.
SinOtroDefecto(d, p) ==
    /\ ~muestra_ph_incoherente(d, p)
    /\ ~tasa_outliers_excedida(d, p)
    /\ ~al_baja_precision(d)
    /\ ~fecha_antigua(d, p)

\* p with both null penalties set to zero.
SinPenalidadNulos(p) ==
    [p EXCEPT !.penalidad_nulo_ph = 0, !.penalidad_nulo_al = 0]

\* What C4 says of one column: the breakdown holds the full penalty when every
\* row is missing, the rounded prorated penalty when some are, and nothing else.
C4_Entrada(col, total, parcial, penalidad) ==
    LET n == Len(df)
        k == NumNulos(df, col)
        D == icd.desglose
    IN  /\ (k = n) => (total \in DOMAIN D /\ D[total] = 0 - penalidad
                       /\ parcial \notin DOMAIN D)
        /\ (0 < k /\ k < n) => (parcial \in DOMAIN D
                                /\ D[parcial] = 0 - Round(penalidad * k, n)
                                /\ total \notin DOMAIN D)
        /\ (k = 0) => (total \notin DOMAIN D /\ parcial \notin DOMAIN D)

\* C4: per column (pH, Al) the running score loses the full null penalty when
\* every row is missing and exactly penalty * missing / total, unrounded, when
\* some are, while the breakdown records that amount rounded; and 5 rows with one
\* missing pH, default parameters and no other defect give the entry 4 (stored
\* as -4), score 96 and tier "Alta".
C4_Prorrateo ==
    (pc = "icd" /\ df # << >>) =>
        LET n   == Len(df)
            kph == NumNulos(df, "ph")
            kal == NumNulos(df, "al")
            resta == params.penalidad_nulo_ph * kph + params.penalidad_nulo_al * kal
        IN  /\ C4_Entrada("ph", "Complecion (pH_agua_suelo Nulo Total)",
                          "Complecion (pH_agua_suelo Nulo Parcial)",
                          params.penalidad_nulo_ph)
            /\ C4_Entrada("al", "Complecion (Aluminio Nulo Total)",
                          "Complecion (Aluminio Nulo Parcial)",
                          params.penalidad_nulo_al)
            /\ PuntajeBaseN(df, params)
                   = PuntajeBaseN(df, SinPenalidadNulos(params)) - resta
            /\ SinOtroDefecto(df, params)
                   => icd.puntaje = (IF 100 * n - resta < 0 THEN 0
                                     ELSE Round(100 * n - resta, n))
            /\ ( /\ n = 5 /\ kph = 1 /\ kal = 0
                 /\ params = ICD_PARAMS
                 /\ SinOtroDefecto(df, params) )
                   => /\ icd.desglose = ("Complecion (pH_agua_suelo Nulo Parcial)" :> -4)
                      /\ icd.puntaje = 96
                      /\ icd.calificacion = "Alta"

\* C4 witness: both columns are partly missing, nothing else is wrong, and the
\* score differs from 100 minus the two rounded amounts the breakdown shows.
C4_Witness ==
    /\ pc = "icd"
    /\ df # << >>
    /\ params = ICD_PARAMS
    /\ SinOtroDefecto(df, params)
    /\ DOMAIN icd.desglose = { "Complecion (pH_agua_suelo Nulo Parcial)",
                               "Complecion (Aluminio Nulo Parcial)" }
    /\ icd.puntaje # 100 + icd.desglose["Complecion (pH_agua_suelo Nulo Parcial)"]
                         + icd.desglose["Complecion (Aluminio Nulo Parcial)"]

\* The 5-row example of C4 is reached.
C4_Ejemplo ==
    /\ pc = "icd"
    /\ Len(df) = 5 /\ NumNulos(df, "ph") = 1 /\ NumNulos(df, "al") = 0
    /\ params = ICD_PARAMS
    /\ SinOtroDefecto(df, params)
    /\ icd.puntaje = 96

\* Some present pH value is strictly outside the bounds, as C5 words it.
HayPhFuera(d, p) ==
    \E i \in DOMAIN d :
        d[i].ph # NaN /\ (d[i].ph < p.umbral_ph_min \/ d[i].ph > p.umbral_ph_max)

\* C5: the pH-incoherence penalty is deducted once, at its full value whatever
\* the number of offending rows, iff some present pH value is strictly below
\* umbral_ph_min or strictly above umbral_ph_max; never when no pH is present.
C5_Incoherencia ==
    (pc = "icd" /\ df # << >>) =>
        LET D    == icd.desglose
            sin  == [params EXCEPT !.penalidad_incoherente_ph = 0]
            pen  == params.penalidad_incoherente_ph
        IN  /\ HayPhFuera(df, params)
                 => /\ "Coherencia (pH Imposible)" \in DOMAIN D
                    /\ D["Coherencia (pH Imposible)"] = 0 - pen
                    /\ PuntajeBaseN(df, params)
                           = PuntajeBaseN(df, sin) - pen * Len(df)
            /\ ~HayPhFuera(df, params)
                 => /\ "Coherencia (pH Imposible)" \notin DOMAIN D
                    /\ PuntajeBaseN(df, params) = PuntajeBaseN(df, sin)
            /\ (Presentes(df, "ph") = {})
                 => "Coherencia (pH Imposible)" \notin DOMAIN D

\* C5 witness: two of at least three rows offend (one low, one high) and the
\* breakdown shows the penalty once, in full.
C5_Witness ==
    /\ pc = "icd"
    /\ Len(df) >= 3
    /\ \E i \in DOMAIN df : df[i].ph # NaN /\ df[i].ph < params.umbral_ph_min
    /\ \E i \in DOMAIN df : df[i].ph > params.umbral_ph_max
    /\ \E i \in DOMAIN df : df[i].ph = params.umbral_ph_min
    /\ params.penalidad_incoherente_ph > 0
    /\ icd.desglose["Coherencia (pH Imposible)"] = 0 - params.penalidad_incoherente_ph

\* C9 as stated: every entry of the breakdown records a non-zero deduction.
C9_Original ==
    (pc = "icd") => \A c \in DOMAIN icd.desglose : icd.desglose[c] # 0


(***************************************************************************)
(* Properties of obtener_diagnostico (checked under SpecDiag).             *)
(***************************************************************************)
AdvPhExtremo == Adv("pH", "Fuera de Rango Extremo", "stop")

Contiene(advs, a) == \E j \in DOMAIN advs : advs[j] = a

\* C6 as stated: for pH values [2.0, 11.0] under the default parameters the
\* diagnosis holds the "Fuera de Rango Extremo" warning and the state "peligro".
C6_Original ==
    ( /\ pc = "diag_fin"
      /\ params = ICD_PARAMS
      /\ Len(df) = 2 /\ df[1].ph = 200 /\ df[2].ph = 1100 )
        => (Contiene(diag.advertencias, AdvPhExtremo) /\ diag.estado = "peligro")

\* C6 amended: under the default parameters, a subset whose MEAN pH is below 3.0
\* or above 10.0 gets the "Fuera de Rango Extremo" warning and state "peligro".
C6_Amended ==
    ( /\ pc = "diag_fin"
      /\ params = ICD_PARAMS
      /\ Presentes(df, "ph") # {}
      /\ LET suma == SumSeq([i \in 1..Len(df) |-> IF df[i].ph = NaN THEN 0 ELSE df[i].ph])
             n    == Cardinality(Presentes(df, "ph"))
         IN  suma < 300 * n \/ suma > 1000 * n )
        => (Contiene(diag.advertencias, AdvPhExtremo) /\ diag.estado = "peligro")

\* C6 witness: two rows, both with pH 11.0 (mean above 10.0), reported extreme.
C6_Witness ==
    /\ pc = "diag_fin"
    /\ params = ICD_PARAMS
    /\ Len(df) = 2 /\ df[1].ph = 1100 /\ df[2].ph = 1100
    /\ Contiene(diag.advertencias, AdvPhExtremo)
    /\ diag.estado = "peligro"

Rango(estado) ==
    IF estado = "saludable" THEN 0 ELSE IF estado = "alerta" THEN 1 ELSE 2

EnEvaluacion(p) ==
    p \in { "indicador_1", "indicador_2", "indicador_3", "ajuste_saludable",
            "ajuste_optimo", "diag_return" }

\* C7: within one evaluation, over the steps pH, aluminium, organic matter and
\* the closing adjustments, the state only moves up in saludable < alerta <
\* peligro.
C7_SoloEscala ==
    [][ EnEvaluacion(pc) => Rango(estado_general') >= Rango(estado_general) ]_vars

\* C7 witness: the evaluation reached "peligro" at aluminium, then organic matter
\* raised a warning of its own, and the state returned is still "peligro".
C7_Witness ==
    /\ pc = "diag_fin"
    /\ Len(diag.advertencias) >= 2
    /\ \E j \in DOMAIN diag.advertencias :
           /\ diag.advertencias[j].nombre = "Aluminio"
           /\ diag.advertencias[j].icono = "stop"
    /\ \E j \in DOMAIN diag.advertencias :
           /\ diag.advertencias[j].nombre = "Materia Organica"
           /\ diag.advertencias[j].icono \in {"warn", "ausente"}
    /\ diag.estado = "peligro"

\* C8: for a subset that is empty, or whose pH, Al and organic matter are missing
\* in every row, the result is the single fixed warning, state "peligro" and the
\* three means 0.0, whatever the parameters and the dates.
C8_Insuficiente ==
    ( /\ pc = "diag_fin"
      /\ \/ df = << >>
         \/ \A i \in DOMAIN df : df[i].ph = NaN /\ df[i].al = NaN /\ df[i].mo = NaN )
        => /\ Len(diag.advertencias) = 1
           /\ diag.advertencias[1].msj = "No hay datos completos o suficientes"
           /\ diag.estado = "peligro"
           /\ diag.ph = Cero /\ diag.al = Cero /\ diag.mo = Cero

\* C8 witness: rows without key values but with differing dates, non-default
\* parameters, and the fixed result.
C8_Witness ==
    /\ pc = "diag_fin"
    /\ Len(df) >= 2
    /\ \A i \in DOMAIN df : df[i].ph = NaN /\ df[i].al = NaN /\ df[i].mo = NaN
    /\ \E i, j \in DOMAIN df : df[i].year # df[j].year
    /\ params # ICD_PARAMS
    /\ diag = ResultadoInsuficiente


(***************************************************************************)
(* Properties of the session state (checked under SpecSesion).             *)
(***************************************************************************)
\* C10: the expert-level adjustments change only the session's working copy:
\* after every interaction ICD_PARAMS holds its original values; the working
\* copy is made from the defaults once per session, is never dropped, and
\* changes only by an adjustment made in the expert level, so it keeps the
\* adjusted values across level switches and reruns.
C10_SoloCopiaDeTrabajo ==
    [][ \A s \in Sesiones :
          /\ ses'[s].ICD_PARAMS = ICD_PARAMS
          /\ (~ses[s].tiene_params /\ ses'[s].tiene_params)
                => ses'[s].current_icd_params = ICD_PARAMS
          /\ ses[s].tiene_params
                => /\ ses'[s].tiene_params
                   /\ (ses'[s].current_icd_params # ses[s].current_icd_params)
                         => /\ ses[s].user_level = "advanced"
                            /\ ses'[s].user_level = "advanced"
                            /\ ses[s].widgets_vivos ]_vars

\* C10 witness: a session adjusted two rules, left the expert level for another
\* level, and still holds the adjusted working copy beside intact defaults.
C10_Witness ==
    \E s \in Sesiones :
        /\ ses[s].user_level = "easy"
        /\ ses[s].tiene_params
        /\ ses[s].current_icd_params.penalidad_nulo_ph = Entrada.penalidad_nulo_ph
        /\ ses[s].current_icd_params.umbral_ph_min = Entrada.umbral_ph_min
        /\ ses[s].ICD_PARAMS = ICD_PARAMS


(***************************************************************************)
(* Properties of concurrent sessions (checked under SpecSesion).           *)
(***************************************************************************)
\* C11: with two sessions interleaving their interactions in any order, a step
\* of one session (an adjustment among them) leaves every other session's
\* working parameter copy unchanged, and the score of every other session is
\* still the one its own working copy gives.
C11_SesionesAisladas ==
    [][ \A s \in Sesiones : \A t \in Sesiones \ {s} :
            ses'[s] # ses[s] =>
                /\ ses'[t].current_icd_params = ses[t].current_icd_params
                /\ ses'[t].new_icd_puntaje = ses[t].new_icd_puntaje
                /\ ses'[t].tiene_params =>
                       ses'[t].new_icd_puntaje =
                           calcular_icd(DfMunicipio, ses'[t].current_icd_params).puntaje
      ]_vars

\* C11 witness: both sessions are in the expert level after adjustments, with
\* different working copies and different scores.
C11_Witness ==
    /\ \A s \in Sesiones : ses[s].user_level = "advanced" /\ ses[s].tiene_params
    /\ ses["s1"].current_icd_params # ICD_PARAMS
    /\ ses["s2"].current_icd_params # ICD_PARAMS
    /\ ses["s1"].current_icd_params # ses["s2"].current_icd_params
    /\ ses["s1"].new_icd_puntaje # ses["s2"].new_icd_puntaje

(***************************************************************************)
(* Properties of detectar_outliers_iqr (checked under SpecOutliers).       *)
(* The quartiles are stated here from the order statistics of the series,  *)
(* independently of the sorted sequence the function interpolates in.      *)
(***************************************************************************)
\* The k-th smallest of the values of column ph at the positions pos.
KesimoMenor(d, pos, k) ==
    CHOOSE v \in { d[i].ph : i \in pos } :
        /\ Cardinality({ i \in pos : d[i].ph < v }) < k
        /\ Cardinality({ i \in pos : d[i].ph <= v }) >= k

\* 4 times the quartile q4/4 (linear interpolation between order statistics).
Cuartil4(d, pos, q4) ==
    LET n == Cardinality(pos)
        h == (n - 1) * q4
        a == KesimoMenor(d, pos, (h \div 4) + 1)
        b == IF h % 4 = 0 THEN a ELSE KesimoMenor(d, pos, (h \div 4) + 2)
    IN  4 * a + (h % 4) * (b - a)

\* 8 times Q1 - 1.5 IQR and 8 times Q3 + 1.5 IQR.
CercaInferior8(d, pos) == 5 * Cuartil4(d, pos, 1) - 3 * Cuartil4(d, pos, 3)
CercaSuperior8(d, pos) == 5 * Cuartil4(d, pos, 3) - 3 * Cuartil4(d, pos, 1)

NoNulos(d) == { i \in DOMAIN d : d[i].ph # NaN }

\* C12: detectar_outliers_iqr returns count 0 and no outliers when fewer than 4
\* non-missing values remain; otherwise the outliers are exactly the non-missing
\* values strictly below Q1 - 1.5 IQR or strictly above Q3 + 1.5 IQR, so a value
\* on a fence is not one and a series of equal values has none; the count is
\* the size of the returned set.
C12_Outliers ==
    pc = "outliers_fin" =>
        LET pos == NoNulos(df)
        IN  /\ res_outliers.count = Cardinality(res_outliers.outliers)
            /\ Cardinality(pos) < 4 => res_outliers = [count |-> 0, outliers |-> {}]
            /\ Cardinality(pos) >= 4 =>
                  /\ res_outliers.outliers =
                         { i \in pos : \/ 8 * df[i].ph < CercaInferior8(df, pos)
                                       \/ 8 * df[i].ph > CercaSuperior8(df, pos) }
                  /\ \A i \in pos :
                         8 * df[i].ph \in {CercaInferior8(df, pos), CercaSuperior8(df, pos)}
                             => i \notin res_outliers.outliers
                  /\ (\A i, j \in pos : df[i].ph = df[j].ph) => res_outliers.count = 0

\* C12 witness: a series with distinct quartiles in which one value lies on a
\* fence and is kept while another lies beyond a fence and is returned.
C12_Witness ==
    /\ pc = "outliers_fin"
    /\ Cardinality(NoNulos(df)) >= 4
    /\ Cuartil4(df, NoNulos(df), 1) # Cuartil4(df, NoNulos(df), 3)
    /\ res_outliers.count >= 1
    /\ \E i \in NoNulos(df) :
          /\ 8 * df[i].ph \in {CercaInferior8(df, NoNulos(df)),
                                CercaSuperior8(df, NoNulos(df))}
          /\ i \notin res_outliers.outliers

(***************************************************************************)
(* The empty subset (checked under SpecIcd).                               *)
(***************************************************************************)
\* C13: for an empty sample subset calcular_icd returns score 0, tier "Baja"
\* and an empty breakdown, for every parameter set; it reads no parameter, so
\* a dict without any key gives the same result without an error.
C13_SubconjuntoVacio ==
    (pc = "icd" /\ df = << >>) =>
        /\ icd = [puntaje |-> 0, calificacion |-> "Baja", desglose |-> EmptyDict]
        /\ DOMAIN icd.desglose = {}
        /\ calcular_icd(df, EmptyDict) = icd

\* C13 witness: the empty subset was scored again after a penalty weight was
\* changed.
C13_Witness ==
    /\ pc = "icd"
    /\ df = << >>
    /\ params # ICD_PARAMS
    /\ icd.puntaje = 0
    /\ icd.calificacion = "Baja"

(***************************************************************************)
(* The way back to the level selector (checked under SpecSesion).          *)
(***************************************************************************)
\* C14: in every reachable session state in which an experience level is
\* selected, the "change experience level" button is offered, also when the
\* dataset is empty.
C14_Original ==
    \A s \in Sesiones : ses[s].user_level # "None" => ses[s].boton_cambiar

(***************************************************************************)
(* The warnings against the state (checked under SpecDiag).                *)
(***************************************************************************)
EsOptimo(adv) == adv.icono = "ok"

\* C15: every result of obtener_diagnostico has a non-empty list of warnings
\* that agrees with the state: the state is "peligro" exactly when a warning of
\* danger level is in the list, and the message of optimal conditions is in the
\* list exactly when the state is "saludable", where it is the only entry.
C15_AdvertenciasYEstado ==
    pc = "diag_fin" =>
        /\ diag.advertencias # << >>
        /\ diag.estado \in {"saludable", "alerta", "peligro"}
        /\ diag.estado = "peligro" <=> HayIcono(diag.advertencias, "stop")
        /\ diag.estado = "saludable" <=>
               \E j \in DOMAIN diag.advertencias : EsOptimo(diag.advertencias[j])
        /\ diag.estado = "saludable" =>
               /\ Len(diag.advertencias) = 1
               /\ EsOptimo(diag.advertencias[1])

\* C15 witness: a result in danger whose list holds a danger warning next to
\* warnings of other kinds and no message of optimal conditions.
C15_Witness ==
    /\ pc = "diag_fin"
    /\ diag.estado = "peligro"
    /\ Len(diag.advertencias) = 3
    /\ HayIcono(diag.advertencias, "stop")
    /\ HayIcono(diag.advertencias, "warn") \/ HayIcono(diag.advertencias, "ausente")
    /\ ~HayIcono(diag.advertencias, "ok")

====
